---- MODULE Spec2Model ----
(***************************************************************************)
(* Weather lookup service (FastAPI application, src/app/main.py).          *)
(*                                                                         *)
(* Text is modelled as a sequence of one-character strings.  Characters    *)
(* outside ASCII are written in Python's unicode-escape form, so the       *)
(* Cyrillic letter U+043A is the character "\\u043a" and the label of      *)
(* weather code 0 is "\\u042f\\u0441\\u043d\\u043e".  Coordinates are the  *)
(* source's decimal degrees scaled by 10^4.                                *)
(***************************************************************************)
EXTENDS Integers, Sequences, FiniteSets, TLC

VARIABLES
    engine,            \* the database engine behind SessionLocal (main.py:3)
    clock,             \* wall clock read by time.time() and datetime.utcnow()
    running,           \* request whose handler occupies the event loop, 0 if none
    pc,                \* position of every request
    request,           \* endpoint and parameters of every request
    env,               \* what the upstream and the storage answered to the last handler
    rows_seen,         \* rows in the table when the history query of a request ran
    start_time,        \* local start_time of get_weather_by_city
    weather_data,      \* local weather_data of get_weather_by_city
    table,             \* rows of weather_requests, in insertion order
    REQUEST_COUNT,     \* Counter weather_requests_total by status label
    REQUEST_LATENCY,   \* Histogram weather_request_latency_seconds
    response,          \* HTTP response of every request
    arg,               \* argument of a function applied on its own
    ret                \* its result

vars == <<engine, rows_seen, clock, running, pc, request, env, start_time,
          weather_data, table, REQUEST_COUNT, REQUEST_LATENCY, response, arg, ret>>

-----------------------------------------------------------------------------
(* Bounds of the model.                                                    *)

NumReq == 2        \* requests sent to the server
NumHistReq == 2    \* requests sent to a server that starts on a stored table
MaxRows == 2       \* rows of the table the server starts on
MaxClock == 1      \* last tick of the clock
MaxPad == 1        \* whitespace characters added on each side of a city name
MaxUpper == 1      \* letters of a city name written in upper case (or all)

-----------------------------------------------------------------------------
(* Static reference data.                                                  *)

CITY_COORDINATES ==
       <<"m", "o", "s", "c", "o", "w">> :> [lat |-> 557558, lon |-> 376173]
    @@ <<"l", "o", "n", "d", "o", "n">> :> [lat |-> 515074, lon |-> -1278]
    @@ <<"n", "e", "w", " ", "y", "o", "r", "k">> :> [lat |-> 407128, lon |-> -740060]
    @@ <<"t", "o", "k", "y", "o">> :> [lat |-> 356762, lon |-> 1396503]
    @@ <<"p", "a", "r", "i", "s">> :> [lat |-> 488566, lon |-> 23522]
    @@ <<"b", "e", "r", "l", "i", "n">> :> [lat |-> 525200, lon |-> 134050]
    @@ <<"\\u043a", "\\u0438", "\\u0435", "\\u0432">> :> [lat |-> 504501, lon |-> 305234]
    @@ <<"\\u0441", "\\u0430", "\\u043d", "\\u043a", "\\u0442", "-", "\\u043f", "\\u0435", "\\u0442", "\\u0435", "\\u0440", "\\u0431", "\\u0443", "\\u0440", "\\u0433">> :> [lat |-> 599343, lon |-> 303351]
    @@ <<"\\u0441", "\\u043e", "\\u0447", "\\u0438">> :> [lat |-> 435855, lon |-> 397231]
    @@ <<"\\u043a", "\\u0430", "\\u0437", "\\u0430", "\\u043d", "\\u044c">> :> [lat |-> 557961, lon |-> 491064]

WEATHER_CODES ==
       0 :> "\\u042f\\u0441\\u043d\\u043e"
    @@ 1 :> "\\u0412 \\u043e\\u0441\\u043d\\u043e\\u0432\\u043d\\u043e\\u043c \\u044f\\u0441\\u043d\\u043e"
    @@ 2 :> "\\u041f\\u0435\\u0440\\u0435\\u043c\\u0435\\u043d\\u043d\\u0430\\u044f \\u043e\\u0431\\u043b\\u0430\\u0447\\u043d\\u043e\\u0441\\u0442\\u044c"
    @@ 3 :> "\\u041f\\u0430\\u0441\\u043c\\u0443\\u0440\\u043d\\u043e"
    @@ 45 :> "\\u0422\\u0443\\u043c\\u0430\\u043d"
    @@ 48 :> "\\u0418\\u0437\\u043c\\u043e\\u0440\\u043e\\u0437\\u044c"
    @@ 51 :> "\\u041b\\u0435\\u0433\\u043a\\u0430\\u044f \\u043c\\u043e\\u0440\\u043e\\u0441\\u044c"
    @@ 53 :> "\\u0423\\u043c\\u0435\\u0440\\u0435\\u043d\\u043d\\u0430\\u044f \\u043c\\u043e\\u0440\\u043e\\u0441\\u044c"
    @@ 55 :> "\\u0421\\u0438\\u043b\\u044c\\u043d\\u0430\\u044f \\u043c\\u043e\\u0440\\u043e\\u0441\\u044c"
    @@ 56 :> "\\u041b\\u0435\\u0433\\u043a\\u0430\\u044f \\u043b\\u0435\\u0434\\u044f\\u043d\\u0430\\u044f \\u043c\\u043e\\u0440\\u043e\\u0441\\u044c"
    @@ 57 :> "\\u0421\\u0438\\u043b\\u044c\\u043d\\u0430\\u044f \\u043b\\u0435\\u0434\\u044f\\u043d\\u0430\\u044f \\u043c\\u043e\\u0440\\u043e\\u0441\\u044c"
    @@ 61 :> "\\u041d\\u0435\\u0431\\u043e\\u043b\\u044c\\u0448\\u043e\\u0439 \\u0434\\u043e\\u0436\\u0434\\u044c"
    @@ 63 :> "\\u0423\\u043c\\u0435\\u0440\\u0435\\u043d\\u043d\\u044b\\u0439 \\u0434\\u043e\\u0436\\u0434\\u044c"
    @@ 65 :> "\\u0421\\u0438\\u043b\\u044c\\u043d\\u044b\\u0439 \\u0434\\u043e\\u0436\\u0434\\u044c"
    @@ 66 :> "\\u041b\\u0435\\u0433\\u043a\\u0438\\u0439 \\u043b\\u0435\\u0434\\u044f\\u043d\\u043e\\u0439 \\u0434\\u043e\\u0436\\u0434\\u044c"
    @@ 67 :> "\\u0421\\u0438\\u043b\\u044c\\u043d\\u044b\\u0439 \\u043b\\u0435\\u0434\\u044f\\u043d\\u043e\\u0439 \\u0434\\u043e\\u0436\\u0434\\u044c"
    @@ 71 :> "\\u041d\\u0435\\u0431\\u043e\\u043b\\u044c\\u0448\\u043e\\u0439 \\u0441\\u043d\\u0435\\u0433"
    @@ 73 :> "\\u0423\\u043c\\u0435\\u0440\\u0435\\u043d\\u043d\\u044b\\u0439 \\u0441\\u043d\\u0435\\u0433"
    @@ 75 :> "\\u0421\\u0438\\u043b\\u044c\\u043d\\u044b\\u0439 \\u0441\\u043d\\u0435\\u0433"
    @@ 77 :> "\\u0421\\u043d\\u0435\\u0436\\u043d\\u044b\\u0435 \\u0437\\u0435\\u0440\\u043d\\u0430"
    @@ 80 :> "\\u041d\\u0435\\u0431\\u043e\\u043b\\u044c\\u0448\\u0438\\u0435 \\u043b\\u0438\\u0432\\u043d\\u0438"
    @@ 81 :> "\\u0423\\u043c\\u0435\\u0440\\u0435\\u043d\\u043d\\u044b\\u0435 \\u043b\\u0438\\u0432\\u043d\\u0438"
    @@ 82 :> "\\u0421\\u0438\\u043b\\u044c\\u043d\\u044b\\u0435 \\u043b\\u0438\\u0432\\u043d\\u0438"
    @@ 85 :> "\\u041d\\u0435\\u0431\\u043e\\u043b\\u044c\\u0448\\u0438\\u0435 \\u0441\\u043d\\u0435\\u0433\\u043e\\u043f\\u0430\\u0434\\u044b"
    @@ 86 :> "\\u0421\\u0438\\u043b\\u044c\\u043d\\u044b\\u0435 \\u0441\\u043d\\u0435\\u0433\\u043e\\u043f\\u0430\\u0434\\u044b"
    @@ 95 :> "\\u0413\\u0440\\u043e\\u0437\\u0430"
    @@ 96 :> "\\u0413\\u0440\\u043e\\u0437\\u0430 \\u0441 \\u043d\\u0435\\u0431\\u043e\\u043b\\u044c\\u0448\\u0438\\u043c \\u0433\\u0440\\u0430\\u0434\\u043e\\u043c"
    @@ 99 :> "\\u0413\\u0440\\u043e\\u0437\\u0430 \\u0441 \\u0441\\u0438\\u043b\\u044c\\u043d\\u044b\\u043c \\u0433\\u0440\\u0430\\u0434\\u043e\\u043c"

DefaultCoordinates == [lat |-> 557558, lon |-> 376173]

UnknownDescription == "\\u041d\\u0435\\u0438\\u0437\\u0432\\u0435\\u0441\\u0442\\u043d\\u043e"

DefaultHumidity == 50

WEATHER_API_PROVIDER == "openmeteo"

-----------------------------------------------------------------------------
(* str.lower() and str.strip() on the characters the model uses.           *)

UpperLower ==
    { <<"A", "a">>, <<"B", "b">>, <<"C", "c">>, <<"D", "d">>,
      <<"E", "e">>, <<"I", "i">>, <<"K", "k">>, <<"L", "l">>,
      <<"M", "m">>, <<"N", "n">>, <<"O", "o">>, <<"P", "p">>,
      <<"R", "r">>, <<"S", "s">>, <<"T", "t">>, <<"W", "w">>,
      <<"Y", "y">>, <<"\\u0410", "\\u0430">>, <<"\\u0411", "\\u0431">>, <<"\\u0412", "\\u0432">>,
      <<"\\u0413", "\\u0433">>, <<"\\u0415", "\\u0435">>, <<"\\u0417", "\\u0437">>, <<"\\u0418", "\\u0438">>,
      <<"\\u041a", "\\u043a">>, <<"\\u041d", "\\u043d">>, <<"\\u041e", "\\u043e">>, <<"\\u041f", "\\u043f">>,
      <<"\\u0420", "\\u0440">>, <<"\\u0421", "\\u0441">>, <<"\\u0422", "\\u0442">>, <<"\\u0423", "\\u0443">>,
      <<"\\u0427", "\\u0447">>, <<"\\u042c", "\\u044c">> }
Whitespace == {" ", "\t"}

ToLower(c) ==
    IF \E p \in UpperLower : p[1] = c
    THEN (CHOOSE p \in UpperLower : p[1] = c)[2]
    ELSE c

Lower(s) == [i \in 1..Len(s) |-> ToLower(s[i])]

Strip(s) ==
    LET keep == {i \in 1..Len(s) : s[i] \notin Whitespace}
    IN  IF keep = {} THEN <<>>
        ELSE LET first == CHOOSE i \in keep : \A j \in keep : i <= j
                 last  == CHOOSE i \in keep : \A j \in keep : j <= i
             IN  SubSeq(s, first, last)

-----------------------------------------------------------------------------
(* Coordinate resolver.                                                    *)

(* The resolver without lower(): only strip() is applied.                  *)
get_city_coordinates_no_lower(city) ==
    LET city_stripped == Strip(city)
    IN  IF city_stripped \in DOMAIN CITY_COORDINATES
        THEN CITY_COORDINATES[city_stripped]
        ELSE DefaultCoordinates

get_city_coordinates(city) ==
    LET city_lower == Strip(Lower(city))
    IN  IF city_lower \in DOMAIN CITY_COORDINATES
        THEN CITY_COORDINATES[city_lower]
        ELSE DefaultCoordinates

-----------------------------------------------------------------------------
(* Weather client.  A reply of the provider is                             *)
(*   [kind |-> "timeout" | "connection_error" | "response",                *)
(*    status_code |-> the HTTP status, body |-> [json |-> ..., data |-> ...]].*)
(* The JSON object data is a function on its keys, so a missing key is a   *)
(* key outside DOMAIN.  json_error is the class response.json() raises on  *)
(* a body that is no JSON: a RequestException in requests 2.27 and later,  *)
(* a ValueError before.                                                    *)

HTTPException(status) == [exc |-> "HTTPException", status_code |-> status, value |-> <<>>]

Return(value) == [exc |-> "none", status_code |-> 0, value |-> value]

raise_for_status(reply) == 400 <= reply.status_code /\ reply.status_code < 600

Truthy(opt) == opt # <<>> /\ opt[1] # 0

HourlyHumidity(data) ==
    IF "hourly" \in DOMAIN data /\ "relativehumidity_2m" \in DOMAIN data.hourly
    THEN LET humidities == data.hourly.relativehumidity_2m
         IN  IF humidities # <<>> THEN <<humidities[1]>> ELSE <<>>
    ELSE <<>>

(* The decoding with the default of dict.get left out: an unknown code     *)
(* takes the label of code 0.                                              *)
Describe_no_default(weather_code) ==
    IF weather_code \in DOMAIN WEATHER_CODES
    THEN WEATHER_CODES[weather_code]
    ELSE WEATHER_CODES[0]

Describe(weather_code) ==
    IF weather_code \in DOMAIN WEATHER_CODES
    THEN WEATHER_CODES[weather_code]
    ELSE UnknownDescription

HumidityOrDefault(humidity) == IF Truthy(humidity) THEN humidity[1] ELSE DefaultHumidity

CurrentKeys == {"temperature", "windspeed", "winddirection", "weathercode"}

get_weather_from_openmeteo(city, reply, json_error) ==
    LET coords == get_city_coordinates(city)
    IN  IF reply.kind # "response" THEN HTTPException(503)
        ELSE IF raise_for_status(reply) THEN HTTPException(503)
        ELSE IF ~reply.body.json
             THEN IF json_error = "RequestException"
                  THEN HTTPException(503) ELSE HTTPException(500)
        ELSE LET data == reply.body.data
             IN  IF "current_weather" \notin DOMAIN data THEN HTTPException(500)
                 ELSE LET current == data.current_weather
                      IN  IF ~(CurrentKeys \subseteq DOMAIN current)
                          THEN HTTPException(500)
                          ELSE Return([temperature |-> current.temperature,
                                       humidity |-> HumidityOrDefault(HourlyHumidity(data)),
                                       description |-> Describe(current.weathercode),
                                       windspeed |-> current.windspeed,
                                       winddirection |-> current.winddirection,
                                       weathercode |-> current.weathercode,
                                       coordinates |-> coords])

-----------------------------------------------------------------------------
(* Inputs of the server model.                                             *)

Reqs == DOMAIN pc

Timeout == [kind |-> "timeout", status_code |-> 0, body |-> [json |-> FALSE, data |-> <<>>]]

ConnectionError ==
    [kind |-> "connection_error", status_code |-> 0, body |-> [json |-> FALSE, data |-> <<>>]]

HttpReply(status, body) == [kind |-> "response", status_code |-> status, body |-> body]

NotJson == [json |-> FALSE, data |-> <<>>]

Json(data) == [json |-> TRUE, data |-> data]

Current(code) ==
    [temperature |-> 20, windspeed |-> 5, winddirection |-> 180, weathercode |-> code]

NoReply == [kind |-> "none", status_code |-> 0, body |-> NotJson]

ServerBodies ==
    { NotJson,
      Json([hourly |-> [relativehumidity_2m |-> <<65>>]]),
      Json([current_weather |-> Current(0), hourly |-> [relativehumidity_2m |-> <<65>>]]) }

ServerStatuses == {200, 304, 503}

ServerReplies ==
    {Timeout, ConnectionError} \cup {HttpReply(s, b) : s \in ServerStatuses, b \in ServerBodies}

ProbeReplies == {Timeout, ConnectionError} \cup {HttpReply(s, NotJson) : s \in ServerStatuses}

GoodReply ==
    HttpReply(200, Json([current_weather |-> Current(0),
                         hourly |-> [relativehumidity_2m |-> <<65>>]]))

ServerCities == { <<"P", "a", "r", "i", "s">> }

Skips == {-1, 0, 1, 2}

Limits == {-1, 0, 1, 2}

JsonErrors == {"RequestException", "ValueError"}

Engines == {"sqlite", "postgresql"}

NoRequest == [endpoint |-> "none", city |-> <<>>, skip |-> 0, limit |-> 0]

WeatherRequests ==
    {[endpoint |-> "weather", city |-> c, skip |-> 0, limit |-> 0] : c \in ServerCities}

HealthRequests == {[endpoint |-> "health", city |-> <<>>, skip |-> 0, limit |-> 0]}

HistoryRequests ==
    {[endpoint |-> "history", city |-> <<>>, skip |-> s, limit |-> l] :
         s \in Skips, l \in Limits}

NoEnv == [req |-> 0, reply |-> NoReply, storage |-> "none"]

NoResponse == [status_code |-> 0, body |-> <<>>]

NoWeatherData == [exc |-> "none", status_code |-> 0, value |-> <<>>]

-----------------------------------------------------------------------------
(* Persistence gateway: the session's insert and the history query.        *)

WeatherRequest(id, city, data, now) ==
    [id |-> id,
     city |-> city,
     temperature |-> data.temperature,
     humidity |-> data.humidity,
     description |-> data.description,
     windspeed |-> data.windspeed,
     winddirection |-> data.winddirection,
     weathercode |-> data.weathercode,
     timestamp |-> now]

(* The orders ORDER BY timestamp DESC may produce: rows of equal timestamp *)
(* come in an order the statement does not fix.                            *)
TimestampDescOrders ==
    {o \in [1..Len(table) -> 1..Len(table)] :
        /\ \A i, j \in 1..Len(table) : i # j => o[i] # o[j]
        /\ \A i, j \in 1..Len(table) :
              i < j => table[o[i]].timestamp >= table[o[j]].timestamp}

Min(a, b) == IF a <= b THEN a ELSE b

(* OFFSET skip LIMIT limit.  SQLite reads a negative OFFSET as 0 and a     *)
(* negative LIMIT as no limit; PostgreSQL rejects both.                    *)
QueryRejected(skip, limit) == engine = "postgresql" /\ (skip < 0 \/ limit < 0)

OffsetLimit(rows, skip, limit) ==
    LET off  == IF skip < 0 THEN 0 ELSE skip
        last == IF limit < 0 THEN Len(rows) ELSE Min(off + limit, Len(rows))
    IN  SubSeq(rows, off + 1, last)

get_history(skip, limit, order) ==
    IF QueryRejected(skip, limit)
    THEN [status_code |-> 500, body |-> <<>>]
    ELSE [status_code |-> 200,
          body |-> OffsetLimit([i \in 1..Len(table) |-> table[order[i]]], skip, limit)]

-----------------------------------------------------------------------------
(* Responses of the handlers.                                              *)

WeatherSuccess(city, data, id, now) ==
    [status_code |-> 200,
     body |-> [city |-> city,
               temperature |-> data.temperature,
               humidity |-> data.humidity,
               description |-> data.description,
               windspeed |-> data.windspeed,
               winddirection |-> data.winddirection,
               weathercode |-> data.weathercode,
               coordinates |-> data.coordinates,
               provider |-> WEATHER_API_PROVIDER,
               timestamp |-> now,
               id |-> id]]

ErrorResponse(status) == [status_code |-> status, body |-> [detail |-> "error"]]

ApiStatus(reply) == IF reply.status_code = 200 THEN "healthy" ELSE "unhealthy"

(* The probe with its failure reported as a non-200 answer.                *)
health_check_no_except(reply, now) ==
    [status_code |-> 200,
     body |-> [status |-> "healthy",
               api_status |-> ApiStatus(reply),
               provider |-> WEATHER_API_PROVIDER,
               timestamp |-> now,
               version |-> "1.0.0"]]

health_check(reply, now) ==
    [status_code |-> 200,
     body |-> [status |-> "healthy",
               api_status |-> IF reply.kind = "response" THEN ApiStatus(reply)
                              ELSE "unreachable",
               provider |-> WEATHER_API_PROVIDER,
               timestamp |-> now,
               version |-> "1.0.0"]]

Inc(counter, label) == [counter EXCEPT ![label] = @ + 1]

Observe(histogram, latency) ==
    [count |-> histogram.count + 1, sum |-> histogram.sum + latency]

-----------------------------------------------------------------------------
(* The server.  All handlers are coroutines without an await, run by one   *)
(* event loop: a handler keeps the loop from Dispatch to its last step.    *)

Started(n) ==
    /\ running = 0
    /\ pc = [r \in 1..n |-> "new"]
    /\ request = [r \in 1..n |-> NoRequest]
    /\ env = NoEnv
    /\ rows_seen = [r \in 1..n |-> 0]
    /\ start_time = [r \in 1..n |-> 0]
    /\ weather_data = [r \in 1..n |-> NoWeatherData]
    /\ REQUEST_COUNT = [success |-> 0, error |-> 0]
    /\ REQUEST_LATENCY = [count |-> 0, sum |-> 0]
    /\ response = [r \in 1..n |-> NoResponse]

Init ==
    /\ Started(NumReq)
    /\ engine \in Engines
    /\ arg = <<>>
    /\ ret = <<>>
    /\ clock = 0
    /\ table = <<>>

Tick ==
    /\ clock < MaxClock
    /\ clock' = clock + 1
    /\ UNCHANGED <<engine, rows_seen, running, pc, request, env, start_time,
                   weather_data, table, REQUEST_COUNT, REQUEST_LATENCY, response, arg, ret>>

Arrive(r, req) ==
    /\ pc[r] = "new"
    /\ (IF r = 1 THEN TRUE ELSE pc[r - 1] # "new")
    /\ request' = [request EXCEPT ![r] = req]
    /\ pc' = [pc EXCEPT ![r] = "queued"]
    /\ UNCHANGED <<engine, rows_seen, clock, running, env, start_time, weather_data,
                   table, REQUEST_COUNT, REQUEST_LATENCY, response, arg, ret>>

FirstStep(endpoint) ==
    IF endpoint = "weather" THEN "upstream"
    ELSE IF endpoint = "health" THEN "probe" ELSE "query"

Dispatch(r) ==
    /\ running = 0
    /\ pc[r] = "queued"
    /\ \A q \in Reqs : q < r => pc[q] # "queued"
    /\ running' = r
    /\ start_time' = [start_time EXCEPT ![r] =
           IF request[r].endpoint = "weather" THEN clock ELSE 0]
    /\ pc' = [pc EXCEPT ![r] = FirstStep(request[r].endpoint)]
    /\ UNCHANGED <<engine, rows_seen, clock, request, env, weather_data, table,
                   REQUEST_COUNT, REQUEST_LATENCY, response, arg, ret>>

UpstreamReturn(r, reply, json_error) ==
    /\ running = r
    /\ pc[r] = "upstream"
    /\ LET result == get_weather_from_openmeteo(request[r].city, reply, json_error)
       IN  /\ weather_data' = [weather_data EXCEPT ![r] = result]
           /\ pc' = [pc EXCEPT ![r] = IF result.exc = "none" THEN "insert" ELSE "except"]
    /\ env' = [req |-> r, reply |-> reply, storage |-> "none"]
    /\ UNCHANGED <<engine, rows_seen, clock, running, request, start_time, table,
                   REQUEST_COUNT, REQUEST_LATENCY, response, arg, ret>>

DbCommit(r, ok) ==
    /\ running = r
    /\ pc[r] = "insert"
    /\ IF ok
       THEN /\ table' = Append(table, WeatherRequest(Len(table) + 1, request[r].city,
                                                     weather_data[r].value, clock))
            /\ pc' = [pc EXCEPT ![r] = "refresh"]
            /\ UNCHANGED <<env, weather_data>>
       ELSE /\ weather_data' = [weather_data EXCEPT ![r].exc = "Exception"]
            /\ env' = [env EXCEPT !.storage = "commit_failed"]
            /\ pc' = [pc EXCEPT ![r] = "except"]
            /\ UNCHANGED table
    /\ UNCHANGED <<engine, rows_seen, clock, running, request, start_time,
                   REQUEST_COUNT, REQUEST_LATENCY, response, arg, ret>>

DbRefresh(r, ok) ==
    /\ running = r
    /\ pc[r] = "refresh"
    /\ IF ok
       THEN /\ REQUEST_COUNT' = Inc(REQUEST_COUNT, "success")
            /\ response' = [response EXCEPT ![r] =
                   WeatherSuccess(request[r].city, weather_data[r].value,
                                  table[Len(table)].id, clock)]
            /\ pc' = [pc EXCEPT ![r] = "finally"]
            /\ UNCHANGED <<env, weather_data>>
       ELSE /\ weather_data' = [weather_data EXCEPT ![r].exc = "Exception"]
            /\ env' = [env EXCEPT !.storage = "refresh_failed"]
            /\ pc' = [pc EXCEPT ![r] = "except"]
            /\ UNCHANGED <<REQUEST_COUNT, response>>
    /\ UNCHANGED <<engine, rows_seen, clock, running, request, start_time, table,
                   REQUEST_LATENCY, arg, ret>>

ExceptStatus(raised) == IF raised.exc = "HTTPException" THEN raised.status_code ELSE 500

(* The except branch without its increment of the error counter.          *)
Except_no_count(r) ==
    /\ running = r
    /\ pc[r] = "except"
    /\ response' = [response EXCEPT ![r] = ErrorResponse(ExceptStatus(weather_data[r]))]
    /\ pc' = [pc EXCEPT ![r] = "finally"]
    /\ UNCHANGED <<engine, rows_seen, clock, running, request, env, start_time,
                   weather_data, table, REQUEST_COUNT, REQUEST_LATENCY, arg, ret>>

Except(r) ==
    /\ running = r
    /\ pc[r] = "except"
    /\ REQUEST_COUNT' = Inc(REQUEST_COUNT, "error")
    /\ response' = [response EXCEPT ![r] = ErrorResponse(ExceptStatus(weather_data[r]))]
    /\ pc' = [pc EXCEPT ![r] = "finally"]
    /\ UNCHANGED <<engine, rows_seen, clock, running, request, env, start_time,
                   weather_data, table, REQUEST_LATENCY, arg, ret>>

Finally(r) ==
    /\ running = r
    /\ pc[r] = "finally"
    /\ REQUEST_LATENCY' = Observe(REQUEST_LATENCY, clock - start_time[r])
    /\ pc' = [pc EXCEPT ![r] = "done"]
    /\ running' = 0
    /\ start_time' = [start_time EXCEPT ![r] = 0]
    /\ weather_data' = [weather_data EXCEPT ![r] = NoWeatherData]
    /\ UNCHANGED <<engine, rows_seen, clock, request, env,
                   table, REQUEST_COUNT, response, arg, ret>>

ProbeReturn(r, reply) ==
    /\ running = r
    /\ pc[r] = "probe"
    /\ response' = [response EXCEPT ![r] = health_check(reply, clock)]
    /\ env' = [req |-> r, reply |-> reply, storage |-> "none"]
    /\ pc' = [pc EXCEPT ![r] = "done"]
    /\ running' = 0
    /\ UNCHANGED <<engine, rows_seen, clock, request, start_time, weather_data,
                   table, REQUEST_COUNT, REQUEST_LATENCY, arg, ret>>

HistoryQuery(r, order) ==
    /\ running = r
    /\ pc[r] = "query"
    /\ response' = [response EXCEPT ![r] =
           get_history(request[r].skip, request[r].limit, order)]
    /\ rows_seen' = [rows_seen EXCEPT ![r] = Len(table)]
    /\ pc' = [pc EXCEPT ![r] = "done"]
    /\ running' = 0
    /\ UNCHANGED <<engine, clock, request, env, start_time, weather_data,
                   table, REQUEST_COUNT, REQUEST_LATENCY, arg, ret>>

Next ==
    \/ Tick
    \/ \E r \in Reqs, req \in WeatherRequests \cup HealthRequests : Arrive(r, req)
    \/ \E r \in Reqs : Dispatch(r)
    \/ \E r \in Reqs, reply \in ServerReplies, e \in JsonErrors : UpstreamReturn(r, reply, e)
    \/ \E r \in Reqs, ok \in BOOLEAN : DbCommit(r, ok)
    \/ \E r \in Reqs, ok \in BOOLEAN : DbRefresh(r, ok)
    \/ \E r \in Reqs : Except(r)
    \/ \E r \in Reqs : Finally(r)
    \/ \E r \in Reqs, reply \in ProbeReplies : ProbeReturn(r, reply)

Spec == Init /\ [][Next]_vars

(* The table outlives the process: the server may start on rows stored by  *)
(* earlier lookups, whose timestamps follow the order of their ids.        *)
StoredTables ==
    UNION {
        { [i \in 1..n |-> WeatherRequest(i, c, get_weather_from_openmeteo(
                                c, GoodReply, "RequestException").value, ts[i])] :
            ts \in {t \in [1..n -> 0..MaxClock] :
                       \A i, j \in 1..n : i < j => t[i] <= t[j]},
            c \in ServerCities }
        : n \in 0..MaxRows }

InitHistory ==
    /\ Started(NumHistReq)
    /\ engine \in Engines
    /\ arg = <<>>
    /\ ret = <<>>
    /\ table \in StoredTables
    /\ clock = IF table = <<>> THEN 0 ELSE table[Len(table)].timestamp

(* Pages of the history read from a stored table.                          *)
NextHistory ==
    \/ \E r \in Reqs, req \in HistoryRequests : Arrive(r, req)
    \/ \E r \in Reqs : Dispatch(r)
    \/ \E r \in Reqs, order \in TimestampDescOrders : HistoryQuery(r, order)

SpecHistory == InitHistory /\ [][NextHistory]_vars

(* A successful lookup followed by the first page of one row.              *)
FirstPage == {[endpoint |-> "history", city |-> <<>>, skip |-> 0, limit |-> 1]}

NextInsert ==
    \/ Tick
    \/ \E r \in Reqs, req \in WeatherRequests \cup FirstPage : Arrive(r, req)
    \/ \E r \in Reqs : Dispatch(r)
    \/ \E r \in Reqs : UpstreamReturn(r, GoodReply, "RequestException")
    \/ \E r \in Reqs : DbCommit(r, TRUE)
    \/ \E r \in Reqs : DbRefresh(r, TRUE)
    \/ \E r \in Reqs : Finally(r)
    \/ \E r \in Reqs, order \in TimestampDescOrders : HistoryQuery(r, order)

SpecInsert == InitHistory /\ [][NextInsert]_vars

-----------------------------------------------------------------------------
(* get_city_coordinates applied on its own to spellings of city names.     *)

ToUpper(c) ==
    IF \E p \in UpperLower : p[2] = c
    THEN (CHOOSE p \in UpperLower : p[2] = c)[1]
    ELSE c

WhitespaceRuns(n) == UNION {[1..m -> Whitespace] : m \in 0..n}

CaseVariants(k) ==
    {[i \in 1..Len(k) |-> IF i \in S THEN ToUpper(k[i]) ELSE k[i]] :
        S \in {T \in SUBSET (1..Len(k)) : Cardinality(T) <= MaxUpper} \cup {1..Len(k)}}

InsertAt(s, p, c) == SubSeq(s, 1, p) \o <<c>> \o SubSeq(s, p + 1, Len(s))

RemoveAt(s, p) == SubSeq(s, 1, p - 1) \o SubSeq(s, p + 1, Len(s))

(* A key with a whitespace character put between two of its characters,   *)
(* or with one of its own whitespace characters taken out.                 *)
InnerWhitespaceEdits(k) ==
    {InsertAt(k, p, c) : p \in 1..(Len(k) - 1), c \in Whitespace}
    \cup {RemoveAt(k, p) : p \in {q \in 1..Len(k) : k[q] \in Whitespace}}

UnknownCities ==
    { <<>>,
      <<"a", "t", "l", "a", "n", "t", "i", "s">>,
      <<"p", "a", "r", "i">>,
      <<"m", "o", "s", "c", "o", "w", "w">>,
      <<"\\u043a", "\\u0438", "\\u0435">> }

CityInputs ==
    {l \o c \o r :
        l \in WhitespaceRuns(MaxPad), r \in WhitespaceRuns(MaxPad),
        c \in UnknownCities \cup UNION {CaseVariants(k) \cup InnerWhitespaceEdits(k) :
                                           k \in DOMAIN CITY_COORDINATES}}

Idle ==
    /\ Started(0)
    /\ engine = "sqlite"
    /\ clock = 0
    /\ table = <<>>

InitCoord ==
    /\ Idle
    /\ arg \in CityInputs
    /\ ret = <<>>

Resolve ==
    /\ ret = <<>>
    /\ ret' = <<get_city_coordinates(arg)>>
    /\ UNCHANGED <<engine, rows_seen, clock, running, pc, request, env,
                   start_time, weather_data, table, REQUEST_COUNT, REQUEST_LATENCY,
                   response, arg>>

NextCoord == Resolve

SpecCoord == InitCoord /\ [][NextCoord]_vars

-----------------------------------------------------------------------------
(* get_weather_from_openmeteo applied on its own to replies of the         *)
(* provider.                                                               *)

FetchCodes == {0, 1, 3, 4, 45, 99, 100}

HumiditySeries == { <<>>, <<0>>, <<1>>, <<50>>, <<65>>, <<100>>, <<65, 80>>, <<0, 80>> }

FetchData ==
    {[current_weather |-> Current(c)] : c \in FetchCodes}
    \cup {[current_weather |-> Current(c), hourly |-> [temperature_2m |-> <<20>>]] :
              c \in FetchCodes}
    \cup {[current_weather |-> Current(c), hourly |-> [relativehumidity_2m |-> h]] :
              c \in FetchCodes, h \in HumiditySeries}
    \cup {[hourly |-> [relativehumidity_2m |-> h]] : h \in HumiditySeries}
    \cup {[current_weather |-> [temperature |-> 20, windspeed |-> 5, winddirection |-> 180]]}

FetchReplies ==
    {Timeout, ConnectionError}
    \cup {HttpReply(s, b) : s \in {200, 404}, b \in {NotJson} \cup {Json(d) : d \in FetchData}}

InitFetch ==
    /\ Idle
    /\ arg \in [city : ServerCities, reply : FetchReplies, json_error : JsonErrors]
    /\ ret = <<>>

Fetch ==
    /\ ret = <<>>
    /\ ret' = <<get_weather_from_openmeteo(arg.city, arg.reply, arg.json_error)>>
    /\ UNCHANGED <<engine, rows_seen, clock, running, pc, request, env,
                   start_time, weather_data, table, REQUEST_COUNT, REQUEST_LATENCY,
                   response, arg>>

NextFetch == Fetch

SpecFetch == InitFetch /\ [][NextFetch]_vars

-----------------------------------------------------------------------------
(* Properties.                                                             *)

WeatherReqs == {r \in Reqs : request[r].endpoint = "weather"}

HealthReqs == {r \in Reqs : request[r].endpoint = "health"}

HistoryReqs == {r \in Reqs : request[r].endpoint = "history"}

Answered(r) == pc[r] = "done"

Succeeded(r) == Answered(r) /\ response[r].status_code = 200

IsPrefix(s, t) == Len(s) <= Len(t) /\ SubSeq(t, 1, Len(s)) = s

(* The table against the responses sent, while no handler is running.     *)
RecordsMatchSuccesses ==
    running = 0 =>
        /\ Len(table) = Cardinality({r \in WeatherReqs : Succeeded(r)})
        /\ \A r \in WeatherReqs :
              Succeeded(r) => /\ response[r].body.id \in 1..Len(table)
                              /\ table[response[r].body.id].city = request[r].city

(* C1: whenever no handler is running, the table holds exactly one record  *)
(* for each /weather request answered with a success and none for a       *)
(* request answered with an error; each success names its own record; and  *)
(* no step modifies or removes a stored record.                            *)
C1_OneRecordPerSuccess == []RecordsMatchSuccesses /\ [][IsPrefix(table, table')]_vars

Counted(r) == pc[r] \in {"finally", "done"}

(* C2: every /weather request increments exactly one of the two counters,  *)
(* the one of its outcome, exactly once and before its latency is          *)
(* observed, and is observed exactly once; no other request touches the    *)
(* metrics.  So once all requests are answered, success + error and the    *)
(* number of observations both equal the number of /weather requests.      *)
C2_CountersAndLatency ==
    /\ REQUEST_COUNT.success =
           Cardinality({r \in WeatherReqs : Counted(r) /\ response[r].status_code = 200})
    /\ REQUEST_COUNT.error =
           Cardinality({r \in WeatherReqs : Counted(r) /\ response[r].status_code # 200})
    /\ REQUEST_LATENCY.count = Cardinality({r \in WeatherReqs : Answered(r)})
    /\ \A r \in WeatherReqs :
          IF Counted(r) THEN response[r].status_code \in {200, 500, 503}
          ELSE response[r] = NoResponse
    /\ (\A r \in Reqs : Answered(r)) =>
           /\ REQUEST_COUNT.success + REQUEST_COUNT.error = Cardinality(WeatherReqs)
           /\ REQUEST_LATENCY.count = Cardinality(WeatherReqs)

(* All requests are answered, one /weather with a success and one with an  *)
(* error.                                                                  *)
C2_Witness ==
    /\ \A r \in Reqs : Answered(r)
    /\ REQUEST_COUNT = [success |-> 1, error |-> 1]
    /\ REQUEST_LATENCY.count = 2

Unavailable(reply) ==
    \/ reply.kind \in {"timeout", "connection_error"}
    \/ reply.kind = "response" /\ ~(200 <= reply.status_code /\ reply.status_code < 300)

WellFormed(body) ==
    /\ body.json
    /\ "current_weather" \in DOMAIN body.data
    /\ CurrentKeys \subseteq DOMAIN body.data.current_weather

(* C3: a failed /weather request is answered 503 when the provider timed   *)
(* out, was unreachable or answered a non-success status; 500 when the     *)
(* provider's answer is unexpected or misses expected fields; 500 when the *)
(* storage failed; and none of these is answered with a success.           *)
C3_StatusByFailureKind ==
    \A r \in WeatherReqs :
        (env.req = r /\ Counted(r)) =>
            LET status == response[r].status_code
            IN  IF Unavailable(env.reply) THEN status = 503
                ELSE IF ~WellFormed(env.reply.body) THEN status = 500
                ELSE IF env.storage # "none" THEN status = 500
                ELSE status = 200

(* C4: while a handler waits on its upstream call, a queued request can be *)
(* started.                                                                *)
C4_HandlersOverlap ==
    (/\ \E r \in Reqs : pc[r] \in {"upstream", "probe"}
     /\ \E q \in Reqs : pc[q] = "queued")
        => \E q \in Reqs : ENABLED Dispatch(q)

(* C5: /health answers 200 with status "healthy" whatever the probe did;   *)
(* api_status is "healthy" iff the probe answered 200, "unhealthy" iff it  *)
(* answered another status, "unreachable" iff it failed.                   *)
C5_HealthAlwaysHealthy ==
    \A r \in HealthReqs :
        Answered(r) =>
            /\ response[r].status_code = 200
            /\ response[r].body.status = "healthy"
            /\ env.req = r =>
                  LET api == response[r].body.api_status
                      answered == env.reply.kind = "response"
                  IN  /\ api = "healthy" <=> (answered /\ env.reply.status_code = 200)
                      /\ api = "unhealthy" <=> (answered /\ env.reply.status_code # 200)
                      /\ api = "unreachable" <=> ~answered

(* The probe timed out and /health answered "healthy" with api_status      *)
(* "unreachable".                                                          *)
C5_Witness ==
    \E r \in HealthReqs :
        /\ Answered(r)
        /\ env.req = r
        /\ env.reply.kind = "timeout"
        /\ response[r].body.status = "healthy"
        /\ response[r].body.api_status = "unreachable"

Ids(rows) == {rows[i].id : i \in 1..Len(rows)}

Page(r) == response[r].body

SharedRows(r1, r2) == Ids(Page(r1)) \cap Ids(Page(r2))

InContract(r) == request[r].skip >= 0 /\ request[r].limit >= 0

(* C6, on the skips and limits of listRecent's contract (both >= 0) and    *)
(* for pages whose windows do not overlap (N' + M <= N): a history request *)
(* is answered without error by at most limit rows, and with no write in   *)
(* between it returns no row that a request with the same limit and a      *)
(* smaller skip returned.                                                  *)
C6_PagesNeverOverlap ==
    /\ \A r \in HistoryReqs :
          (Answered(r) /\ InContract(r)) =>
              /\ response[r].status_code = 200
              /\ Len(Page(r)) <= request[r].limit
    /\ \A r1, r2 \in HistoryReqs :
          (/\ Answered(r1) /\ Answered(r2)
           /\ InContract(r1) /\ InContract(r2)
           /\ rows_seen[r1] = rows_seen[r2]
           /\ request[r1].limit = request[r2].limit
           /\ request[r1].skip + request[r1].limit <= request[r2].skip)
              => SharedRows(r1, r2) = {}

(* C7: the first page of one row, read right after a successful lookup,    *)
(* holds the record that lookup stored, whatever timestamps the earlier    *)
(* records carry; and the stored timestamp is not earlier than the start   *)
(* of the call that stored it.                                             *)
C7_NewestFirst ==
    /\ \A r \in WeatherReqs :
          pc[r] = "refresh" => table[Len(table)].timestamp >= start_time[r]
    /\ \A h \in HistoryReqs :
          (/\ Answered(h)
           /\ request[h].skip = 0 /\ request[h].limit = 1
           /\ h - 1 \in WeatherReqs
           /\ Succeeded(h - 1))
              => /\ response[h].status_code = 200
                 /\ Len(Page(h)) = 1
                 /\ Page(h)[1].id = response[h - 1].body.id

Fetched == ret # <<>>

Result == ret[1]

FetchedData == arg.reply.body.data

Answerable ==
    /\ arg.reply.kind = "response"
    /\ ~raise_for_status(arg.reply)
    /\ WellFormed(arg.reply.body)

HasHumidity(data) ==
    /\ "hourly" \in DOMAIN data
    /\ "relativehumidity_2m" \in DOMAIN data.hourly
    /\ data.hourly.relativehumidity_2m # <<>>

(* C8: the humidity of an observation is the first entry of the hourly     *)
(* relativehumidity_2m series when the series is present and non-empty,    *)
(* whatever that entry is, and 50 otherwise.                               *)
C8_HumidityIsFirstEntry ==
    (Fetched /\ Answerable) =>
        /\ Result.exc = "none"
        /\ Result.value.humidity =
               IF HasHumidity(FetchedData)
               THEN FetchedData.hourly.relativehumidity_2m[1]
               ELSE 50

Resolved == ret # <<>>

NotWhitespace(c) == c \notin Whitespace

(* a and the key k differ only in letter case and in whitespace.           *)
SameButCaseAndWhitespace(a, k) ==
    SelectSeq(Lower(a), NotWhitespace) = SelectSeq(k, NotWhitespace)

(* a is the key k in some letter case between two runs of whitespace.      *)
SameButCaseAndPadding(a, k) ==
    \E before \in 0..Len(a) :
        /\ before + Len(k) <= Len(a)
        /\ \A i \in 1..Len(a) :
              IF i <= before \/ i > before + Len(k)
              THEN a[i] \in Whitespace
              ELSE ToLower(a[i]) = k[i - before]

Moscow == <<"m", "o", "s", "c", "o", "w">>

(* C9 as stated: an input that differs from a key only in letter case and  *)
(* in whitespace resolves to the pair of that key, and any other input to  *)
(* the default pair, which is the pair of "moscow".                        *)
C9_CaseAndWhitespaceInsensitive ==
    Resolved =>
        /\ \A k \in DOMAIN CITY_COORDINATES :
              SameButCaseAndWhitespace(arg, k) => ret[1] = CITY_COORDINATES[k]
        /\ (\A k \in DOMAIN CITY_COORDINATES : ~SameButCaseAndWhitespace(arg, k))
              => ret[1] = CITY_COORDINATES[Moscow]

(* C9 amended: an input that differs from a key only in letter case and in *)
(* leading and trailing whitespace resolves to the pair of that key, and   *)
(* any other input to the default pair, which is the pair of "moscow".     *)
C9_CaseAndPaddingInsensitive ==
    Resolved =>
        /\ \A k \in DOMAIN CITY_COORDINATES :
              SameButCaseAndPadding(arg, k) => ret[1] = CITY_COORDINATES[k]
        /\ (\A k \in DOMAIN CITY_COORDINATES : ~SameButCaseAndPadding(arg, k))
              => ret[1] = CITY_COORDINATES[Moscow]

(* A padded spelling with an upper-case letter resolved to the pair of a   *)
(* key other than "moscow".                                                *)
C9_Witness ==
    /\ Resolved
    /\ \E k \in DOMAIN CITY_COORDINATES :
          /\ k # Moscow
          /\ SameButCaseAndPadding(arg, k)
          /\ Len(arg) > Len(k)
          /\ Lower(arg) # arg
          /\ ret[1] = CITY_COORDINATES[k]

FetchedCode == FetchedData.current_weather.weathercode

ClearSky == "\\u042f\\u0441\\u043d\\u043e"

(* C10 as stated: the description is the table's label of the code, the    *)
(* clear-sky label for code 0, and the literal "Unknown" for a code that   *)
(* is not in the table, which never makes the request fail.                *)
C10_UnknownLabel ==
    (Fetched /\ Answerable) =>
        /\ Result.exc = "none"
        /\ FetchedCode = 0 => Result.value.description = ClearSky
        /\ Result.value.description =
               IF FetchedCode \in DOMAIN WEATHER_CODES
               THEN WEATHER_CODES[FetchedCode]
               ELSE "Unknown"

(* C10 amended: the same with the literal of the source, the Russian word  *)
(* for "unknown", U+041D U+0435 U+0438 U+0437 U+0432 U+0435 U+0441 U+0442  *)
(* U+043D U+043E.                                                          *)
C10_RussianUnknownLabel ==
    (Fetched /\ Answerable) =>
        /\ Result.exc = "none"
        /\ FetchedCode = 0 => Result.value.description = ClearSky
        /\ Result.value.description =
               IF FetchedCode \in DOMAIN WEATHER_CODES
               THEN WEATHER_CODES[FetchedCode]
               ELSE "\\u041d\\u0435\\u0438\\u0437\\u0432\\u0435\\u0441\\u0442\\u043d\\u043e"

(* A reply with a code outside the table was decoded to the fallback.      *)
C10_Witness ==
    /\ Fetched
    /\ Answerable
    /\ FetchedCode \notin DOMAIN WEATHER_CODES
    /\ Result.exc = "none"
    /\ Result.value.description # ClearSky
    /\ Result.value.weathercode = FetchedCode

====
